---- MODULE Spec2Model ----
(***************************************************************************)
(* Flow aggregation and anomaly-detection pipeline (backend/flow_processor *)
(* /tasks.py, backend/flows/models.py, backend/api/views.py).              *)
(*                                                                         *)
(* Time is counted in seconds.  The stores are the three tables of         *)
(* flows/models.py; a row is a record that carries its primary key `id`.   *)
(* Each Celery task is a small process whose position is a `pc` field.     *)
(***************************************************************************)
EXTENDS Integers, Sequences, FiniteSets, TLC

VARIABLES
    clock,      \* timezone.now(), in seconds
    ticks,      \* how many times the clock advanced (bounds the run)
    flows,      \* table network_flows: set of NetworkFlow rows
    nextFlow,   \* next primary key of network_flows
    stats,      \* table flow_statistics: set of FlowStatistics rows
    nextStat,   \* next primary key of flow_statistics
    alerts,     \* table flow_alerts: set of FlowAlert rows
    nextAlert,  \* next primary key of flow_alerts
    agg,        \* aggregate_flow_statistics: one record per worker
    enr,        \* process_network_flows: the task's position and locals
    chk,        \* check_flow_alerts: the task's position
    swp,        \* cleanup_old_flows: the task's position and locals
    ack,        \* POST /alerts/<pk>/acknowledge/: the alert each user's request loaded
    channel,    \* the channel layer: the messages group_send was given
    inv,        \* history: the last invocation of check_flow_alerts
    ws,         \* the channels of the layer and the WebSocket consumers
    rec,        \* NetworkFlow instances in memory, before and after save()
    selected,   \* history: the (period, bucket_start) windows lines 90-93 selected
    api         \* history: outcome of the last POST /statistics/

vars == <<clock, ticks, flows, nextFlow, stats, nextStat, alerts, nextAlert,
          agg, enr, chk, swp, ack, channel, inv, ws, rec, selected, api>>

time == <<clock, ticks>>
flowTable == <<flows, nextFlow>>
statTable == <<stats, nextStat>>
alertTable == <<alerts, nextAlert>>
alertTasks == <<chk, swp, ack>>

-----------------------------------------------------------------------------
(* Program constants *)

Minute == 60
Hour == 3600
Day == 86400
None == -1

\* tasks.py:72-78: (period_name, trunc_func, time_delta)
Periods == 1..5
PeriodName == <<"1m", "5m", "15m", "1h", "1d">>
TruncUnit == <<Minute, Minute, Minute, Hour, Day>>
TimeDelta == <<Minute, 5 * Minute, 15 * Minute, Hour, Day>>

\* TruncMinute / TruncHour / TruncDay: the start of the unit that holds t
Trunc(t, unit) == t - (t % unit)

\* The columns of table network_flows (models.py:16-62) plus the implicit pk.
\* bandwidth_mbps and packets_per_second are Python properties (models.py:108-120),
\* not columns.
NetworkFlowFields ==
    {"id", "flow_id", "timestamp", "first_seen", "last_seen", "src_ip", "dst_ip",
     "src_port", "dst_port", "protocol", "protocol_name", "packets", "bytes",
     "duration", "input_interface", "output_interface", "tos", "tcp_flags",
     "src_country", "src_city", "dst_country", "dst_city", "src_asn", "dst_asn",
     "flow_data", "created_at", "updated_at", "processed"}

\* (an ORM that resolves every name)
ResolvesAll(name) == TRUE

\* QuerySet.aggregate / annotate / filter resolve a name against the model's
\* columns; a name that is no column raises FieldError.
Resolves(name) == name \in NetworkFlowFields

-----------------------------------------------------------------------------
(* Bounds of the model *)

MaxTicks == 1
MaxFlows == 2
MaxStats == 2

\* The run starts half a minute after midnight of some day, so that the
\* minute, hour and day buckets all have their boundary half a minute back.
T0 == 100 * Day + 30

\* The clock advances by a minute.
Steps == {Minute}

\* A collector deposits a flow whose timestamp lies this far before now:
\* on the last minute boundary, one minute and two minutes before it.
FlowAge == {30, 90, 150}

Workers == {1, 2}

\* check_flow_alerts is not started again once this many alerts were created.
MaxAlerts == 2

\* For the alert pipeline the clock advances by a month, at most this often.
MaxMonths == 1
Months == {30 * Day}

\* ... and the collector deposits flows stamped a minute ahead of now (the
\* exporter's clock runs ahead), five minutes back, and a second more.
RecentFlowAge == {0 - 60, 300, 301}

\* TCP and GRE.
Protocols == {6, 47}

\* The periods a client of the statistics endpoint posts: "1m".
ApiPeriods == {1}

Users == {1, 2}

-----------------------------------------------------------------------------
(* Table network_flows *)

\* A flow as the upstream collector stores it (models.py:16-62 defaults):
\* unprocessed, no geolocation, no ASN.
NewFlow(id, ts, proto) ==
    [id |-> id, timestamp |-> ts, protocol |-> proto,
     src_ip |-> 1, dst_ip |-> 1, dst_port |-> 80, bytes |-> 0, duration |-> 0,
     processed |-> FALSE,
     src_country |-> "", dst_country |-> "", src_asn |-> None, dst_asn |-> None]

\* NetworkFlow.objects.filter(timestamp__gte=lo, timestamp__lt=hi)
FlowsInRange(fs, lo, hi) == {f \in fs : f.timestamp >= lo /\ f.timestamp < hi}

-----------------------------------------------------------------------------
(* Table flow_statistics *)

\* Meta.unique_together = ['period', 'timestamp']: may a row with this key go in?
\* (a table without the constraint admits every row)
UniqueTogetherNone(st, period, ts) == TRUE

UniqueTogether(st, period, ts) ==
    ~\E r \in st : r.period = period /\ r.timestamp = ts

\* FlowStatistics.objects.filter(period=p, timestamp=ts).exists()
StatsExists(st, period, ts) ==
    \E r \in st : r.period = period /\ r.timestamp = ts

\* One row of flow_statistics (models.py:135-162), as far as the pipeline
\* reads it back.
StatRow(id, period, ts, n) ==
    [id |-> id, period |-> period, timestamp |-> ts, total_flows |-> n]

\* calculate_flow_statistics (tasks.py:180-247).  The basic aggregates are
\* over columns; lines 187-188 aggregate Max and Avg over 'bandwidth_mbps',
\* which the ORM must resolve to a column before it runs the query.
calculate_flow_statistics(fs, period, ts) ==
    IF Resolves("packets") /\ Resolves("bytes") /\ Resolves("duration")
       /\ Resolves("bandwidth_mbps")
    THEN [error |-> "", period |-> period, timestamp |-> ts,
          total_flows |-> Cardinality(fs)]
    ELSE [error |-> "FieldError", period |-> period, timestamp |-> ts,
          total_flows |-> 0]

-----------------------------------------------------------------------------
(* The clock and the upstream collector *)

\* History kept with every aggregator worker: the clock or the flow store is
\* no longer what it was when the worker's invocation started.
Stale(ag) == [w \in DOMAIN ag |-> [ag[w] EXCEPT !.stale = TRUE]]

Advance(steps, max) ==
    /\ ticks < max
    /\ \E d \in steps : clock' = clock + d
    /\ ticks' = ticks + 1
    /\ agg' = Stale(agg)
    /\ UNCHANGED <<rec, ws, inv, channel, flowTable, statTable, alertTable, enr, alertTasks, selected, api>>

Tick == Advance(Steps, MaxTicks)

\* The collector stores one flow (NetworkFlow.save, models.py:78-87).
InsertFlow(ages, protos) ==
    /\ nextFlow <= MaxFlows
    /\ \E a \in ages, p \in protos :
          flows' = flows \cup {NewFlow(nextFlow, clock - a, p)}
    /\ nextFlow' = nextFlow + 1
    /\ agg' = Stale(agg)
    /\ UNCHANGED <<rec, ws, inv, channel, time, statTable, alertTable, enr, alertTasks, selected, api>>

CollectFlow == InsertFlow(FlowAge, {6})

\* POST /statistics/ (FlowStatisticsViewSet, api/views.py:81-93, a
\* ModelViewSet over FlowStatisticsSerializer): a client stores a snapshot of
\* the current minute.  The insert is refused when the key is taken.
ApiCreateStatistics ==
    /\ Cardinality(stats) < MaxStats
    /\ \E p \in ApiPeriods :
         LET ts == Trunc(clock, Minute) IN
         IF UniqueTogether(stats, PeriodName[p], ts)
         THEN /\ stats' = stats \cup {StatRow(nextStat, PeriodName[p], ts, 1)}
              /\ nextStat' = nextStat + 1
              /\ api' = "created"
         ELSE /\ api' = "rejected"
              /\ UNCHANGED <<stats, nextStat>>
    /\ UNCHANGED <<rec, ws, inv, channel, time, flowTable, alertTable, agg, enr, alertTasks, selected>>

-----------------------------------------------------------------------------
(* The channel layer (flows/consumers.py, tasks.py:296-303, 333-339) *)

\* The WebSocket connections of the model; each has one channel of its own.
Subscribers == {1, 2}

\* A connection: the position of its consumer, the groups its channel is a
\* member of, the events the layer holds for its channel, the frames the
\* consumer has sent to the client, the client frames it has received.
NoSocket ==
    [conn |-> "closed", groups |-> {}, inbox |-> <<>>, socket |-> <<>>,
     received |-> <<>>]

\* published numbers the messages the layer has handed to a channel;
\* audience[n] is the set of connections whose channel was a member of the
\* group of message n when it was sent.
MaxPublished == 1

NoChannels ==
    [published |-> 0, audience |-> <<>>,
     sub |-> [s \in Subscribers |-> NoSocket]]

\* A layer that keeps what was sent: every channel gets the message, the
\* channels that have not joined yet find it when they do.
group_send_kept(layer, msgs) ==
    IF msgs = {} THEN layer
    ELSE LET m == CHOOSE x \in msgs : TRUE
         IN [published |-> layer.published + 1,
             audience |-> Append(layer.audience,
                                 {s \in Subscribers : m.group \in layer.sub[s].groups}),
             sub |-> [s \in Subscribers |->
                        [layer.sub[s] EXCEPT !.inbox =
                           Append(@, [type |-> m.type, data |-> m.data,
                                      n |-> layer.published + 1])]]]

\* channel_layer.group_send(group, message) for the messages of msgs (none
\* or one): a copy goes to the channel of every member of the group at this
\* moment; nothing is kept for channels that join later.
group_send(layer, msgs) ==
    IF msgs = {} THEN layer
    ELSE LET m == CHOOSE x \in msgs : TRUE
             member(s) == m.group \in layer.sub[s].groups
         IN IF \A s \in Subscribers : ~member(s) THEN layer
            ELSE [published |-> layer.published + 1,
                  audience |-> Append(layer.audience, {s \in Subscribers : member(s)}),
                  sub |-> [s \in Subscribers |->
                             IF member(s)
                             THEN [layer.sub[s] EXCEPT !.inbox =
                                     Append(@, [type |-> m.type, data |-> m.data,
                                                n |-> layer.published + 1])]
                             ELSE layer.sub[s]]]

-----------------------------------------------------------------------------
(* aggregate_flow_statistics (tasks.py:65-113) *)

\* A worker that is not running the task.  In a worker's record made1m
\* tells whether this invocation has created a "1m" snapshot, sent the
\* timestamp of the snapshot it has published.
Resting == {"idle", "done", "failed", "crashed"}

IdleWorker ==
    [pc |-> "idle", i |-> 1, bucket |-> None, stale |-> TRUE,
     prior |-> "none", wrote |-> FALSE, raced |-> FALSE, sent |-> None,
     made1m |-> FALSE]

\* The loop of line 80 moves on to the next period, or leaves the loop.
Continue(a) ==
    IF a.i < 5 THEN [a EXCEPT !.i = a.i + 1, !.pc = "check"]
    ELSE [a EXCEPT !.pc = "send", !.i = 1, !.bucket = None]

\* Lines 111-113: the exception is logged and raised again; the task fails.
Failed(a) == [a EXCEPT !.pc = "failed", !.i = 1, !.bucket = None]

\* The scheduler starts the task on worker w.  prior remembers how the
\* worker's previous invocation ended when the clock and the flows have not
\* changed since that invocation started (stale is FALSE).
AggStart(w) ==
    /\ agg[w].pc \in Resting
    /\ agg' = [agg EXCEPT ![w] =
                 [IdleWorker EXCEPT
                    !.pc = "check", !.stale = FALSE,
                    !.prior = IF agg[w].stale THEN "none" ELSE agg[w].pc]]
    /\ UNCHANGED <<rec, ws, inv, channel, time, flowTable, statTable, alertTable, enr, alertTasks, selected, api>>

\* Lines 82-96 for period i: bucket_start from now, the exists-check on the
\* snapshot, the selection of the window's flows and its exists-check.
AggCheck(w) ==
    LET a == agg[w]
        bucket_start == Trunc(clock, TruncUnit[a.i])
        found == FlowsInRange(flows, bucket_start - TimeDelta[a.i], bucket_start)
        race(v) == /\ v # w
                   /\ agg[v].pc = "create"
                   /\ agg[v].i = a.i
                   /\ agg[v].bucket = bucket_start
    IN
    /\ a.pc = "check"
    /\ IF StatsExists(stats, PeriodName[a.i], bucket_start)
       THEN /\ agg' = [agg EXCEPT ![w] = Continue(a)]
            /\ UNCHANGED selected
       ELSE IF found = {}
       THEN /\ agg' = [agg EXCEPT ![w] = Continue(a)]
            /\ UNCHANGED selected
       ELSE /\ selected' = selected \cup {[period |-> a.i, bucket |-> bucket_start]}
            /\ agg' = [v \in Workers |->
                              IF v = w
                              THEN [a EXCEPT !.pc = "create",
                                             !.bucket = bucket_start,
                                             !.raced = a.raced \/ \E u \in Workers : race(u)]
                              ELSE IF race(v) THEN [agg[v] EXCEPT !.raced = TRUE]
                              ELSE agg[v]]
    /\ UNCHANGED <<rec, ws, inv, channel, time, flowTable, statTable, alertTable, enr, alertTasks, api>>

\* (update_or_create in the place of create: the row of the key is rewritten)
AggUpsert(w) ==
    LET a == agg[w]
        found == FlowsInRange(flows, a.bucket - TimeDelta[a.i], a.bucket)
        old == {r \in stats : r.period = PeriodName[a.i] /\ r.timestamp = a.bucket}
    IN
    /\ a.pc = "create"
    /\ stats' = (stats \ old) \cup
                 {StatRow(IF old = {} THEN nextStat ELSE (CHOOSE r \in old : TRUE).id,
                          PeriodName[a.i], a.bucket, Cardinality(found))}
    /\ nextStat' = IF old = {} THEN nextStat + 1 ELSE nextStat
    /\ agg' = [agg EXCEPT ![w] = Continue([a EXCEPT !.wrote = TRUE, !.made1m = @ \/ a.i = 1])]
    /\ UNCHANGED <<rec, ws, inv, channel, time, flowTable, alertTable, enr, alertTasks, selected, api>>

\* Lines 98-104 for period i: calculate_flow_statistics over the selected
\* window, then FlowStatistics.objects.create.  An exception leaves the loop
\* through lines 111-113 (logged, raised again): the task fails.
AggCreate(w) ==
    LET a == agg[w]
        found == FlowsInRange(flows, a.bucket - TimeDelta[a.i], a.bucket)
        st == calculate_flow_statistics(found, PeriodName[a.i], a.bucket)
    IN
    /\ a.pc = "create"
    /\ IF st.error # ""
       THEN /\ agg' = [agg EXCEPT ![w] = Failed(a)]
            /\ UNCHANGED <<stats, nextStat>>
       ELSE IF UniqueTogether(stats, st.period, st.timestamp)
       THEN /\ stats' = stats \cup
                  {StatRow(nextStat, st.period, st.timestamp, st.total_flows)}
            /\ nextStat' = nextStat + 1
            /\ agg' = [agg EXCEPT ![w] = Continue([a EXCEPT !.wrote = TRUE, !.made1m = @ \/ a.i = 1])]
       ELSE \* IntegrityError
            /\ agg' = [agg EXCEPT ![w] = Failed([a EXCEPT !.wrote = TRUE])]
            /\ UNCHANGED <<stats, nextStat>>
    /\ UNCHANGED <<rec, ws, inv, channel, time, flowTable, alertTable, enr, alertTasks, selected, api>>

\* send_statistics_updates (tasks.py:309-342): the newest '1m' row of the
\* last five minutes, if any, goes to group "flows".
LatestStatistics(st, now) ==
    LET recent == {r \in st : r.period = "1m" /\ r.timestamp >= now - 5 * Minute}
    IN IF recent = {} THEN None
       ELSE (CHOOSE r \in recent : \A q \in recent : q.timestamp <= r.timestamp).timestamp

\* group_send (lines 333-339): the message, when there is such a row.
send_statistics_updates(st, now) ==
    IF LatestStatistics(st, now) = None THEN {}
    ELSE {[group |-> "flows", type |-> "statistics_update",
           data |-> {LatestStatistics(st, now)}]}

\* Line 107, then the task returns.
AggSend(w) ==
    /\ agg[w].pc = "send"
    /\ ws.published < MaxPublished
    /\ agg' = [agg EXCEPT ![w] = [agg[w] EXCEPT
                 !.pc = "done", !.sent = LatestStatistics(stats, clock)]]
    /\ channel' = channel \cup send_statistics_updates(stats, clock)
    /\ ws' = group_send(ws, send_statistics_updates(stats, clock))
    /\ UNCHANGED <<rec, inv, time, flowTable, statTable, alertTable, enr, alertTasks, selected, api>>

\* Line 107 when get_channel_layer or group_send raises inside
\* send_statistics_updates: lines 341-342 catch every Exception and log it,
\* nothing is published, and the task goes on to line 109 and returns.
AggSendFail(w) ==
    /\ agg[w].pc = "send"
    /\ agg' = [agg EXCEPT ![w] = [agg[w] EXCEPT !.pc = "done"]]
    /\ UNCHANGED <<rec, ws, inv, channel, time, flowTable, statTable, alertTable, enr, alertTasks, selected, api>>

\* The worker process dies in the middle of the task.
AggCrash(w) ==
    /\ agg[w].pc \notin Resting
    /\ agg' = [agg EXCEPT ![w] = [agg[w] EXCEPT !.pc = "crashed", !.i = 1, !.bucket = None]]
    /\ UNCHANGED <<rec, ws, inv, channel, time, flowTable, statTable, alertTable, enr, alertTasks, selected, api>>

-----------------------------------------------------------------------------
(* process_network_flows (tasks.py:19-62) *)

\* Line 33.
batch_size == 100

\* pending, before, saved and sent are history of the invocation: the primary
\* keys of the flows that were unprocessed when it started, the flow table
\* when it started, the primary keys it saved, how many messages it published.
IdleEnrich ==
    [pc |-> "idle", i |-> 0, count |-> 0, batch |-> {},
     pending |-> {}, before |-> {}, saved |-> {}, sent |-> 0]

\* (a queryset without the filter)
UnprocessedAll(fs) == fs

\* NetworkFlow.objects.filter(processed=False), line 23.  The queryset is
\* lazy: every use of it runs the query again.
Unprocessed(fs) == {f \in fs : ~f.processed}

\* The position of row f in fs under Meta.ordering = ['-timestamp']
\* (models.py:73), counted from 0.
Rank(f, fs) == Cardinality({g \in fs : g.timestamp > f.timestamp})

\* queryset[lo:hi], line 35: ORDER BY timestamp DESC LIMIT hi - lo OFFSET lo
\* over the rows the queryset's filter matches when the slice is evaluated.
Slice(fs, lo, hi) == {f \in fs : lo <= Rank(f, fs) /\ Rank(f, fs) < hi}

\* The row of a batch the loop of line 37 visits first.
FirstOf(batch) == CHOOSE f \in batch : \A g \in batch : g.timestamp <= f.timestamp

\* get_geolocation (tasks.py:250-259): <<country, city>>
get_geolocation(ip) == <<"", "">>

\* get_asn (tasks.py:262-270)
get_asn(ip) == None

\* (a row that comes back as it was loaded)
EnrichedNone(f) == f

\* Lines 38-50 on the loaded row.
Enriched(f) ==
    [f EXCEPT
       !.src_country = IF @ = "" THEN get_geolocation(f.src_ip)[1] ELSE @,
       !.dst_country = IF @ = "" THEN get_geolocation(f.dst_ip)[1] ELSE @,
       !.src_asn = IF @ = None THEN get_asn(f.src_ip) ELSE @,
       !.dst_asn = IF @ = None THEN get_asn(f.dst_ip) ELSE @,
       !.processed = TRUE]

\* Model.save() of a loaded row: the stored row with the same primary key is
\* replaced by the loaded one.
SaveRow(rows, r) == {q \in rows : q.id # r.id} \cup {r}

\* Lines 23-34: nothing to do, or the range of line 34 is fixed from the
\* count of unprocessed flows at this moment.
EnrichStart ==
    /\ enr.pc \in {"idle", "done", "failed"}
    /\ enr' = IF Unprocessed(flows) = {}
              THEN [IdleEnrich EXCEPT !.pc = "done", !.before = flows]
              ELSE [IdleEnrich EXCEPT
                      !.pc = "slice",
                      !.count = Cardinality(Unprocessed(flows)),
                      !.pending = {f.id : f \in Unprocessed(flows)},
                      !.before = flows]
    /\ UNCHANGED <<rec, ws, inv, channel, time, flowTable, statTable, alertTable, agg, alertTasks, selected, api>>

\* Lines 34-37: the next i of the range, and the batch the sliced queryset
\* yields when the inner loop starts to iterate it.
EnrichSlice ==
    /\ enr.pc = "slice"
    /\ enr' = IF enr.i >= enr.count
              THEN [enr EXCEPT !.pc = "send", !.batch = {}]
              ELSE LET batch == Slice(Unprocessed(flows), enr.i, enr.i + batch_size) IN
                   IF batch = {}
                   THEN [enr EXCEPT !.i = enr.i + batch_size]
                   ELSE [enr EXCEPT !.pc = "save", !.batch = batch]
    /\ UNCHANGED <<rec, ws, inv, channel, time, flowTable, statTable, alertTable, agg, alertTasks, selected, api>>

\* (a save that stores nothing and goes on)
EnrichSaveLost ==
    /\ enr.pc = "save"
    /\ enr' = IF enr.batch \ {FirstOf(enr.batch)} = {}
              THEN [enr EXCEPT !.pc = "slice", !.batch = {}, !.i = enr.i + batch_size]
              ELSE [enr EXCEPT !.batch = @ \ {FirstOf(enr.batch)}]
    /\ UNCHANGED <<rec, ws, inv, channel, time, flowTable, statTable, alertTable, agg, alertTasks, selected, api>>

\* Lines 37-51 for one flow of the batch.
EnrichSave ==
    /\ enr.pc = "save"
    /\ LET flow == FirstOf(enr.batch)
           rest == enr.batch \ {flow}
       IN /\ flows' = SaveRow(flows, Enriched(flow))
          /\ enr' = IF rest = {}
                    THEN [enr EXCEPT !.pc = "slice", !.batch = {},
                                     !.i = enr.i + batch_size,
                                     !.saved = @ \cup {flow.id}]
                    ELSE [enr EXCEPT !.batch = rest,
                                     !.saved = @ \cup {flow.id}]
    /\ UNCHANGED <<rec, ws, inv, channel, time, nextFlow, statTable, alertTable, agg, alertTasks, selected, api>>

\* flow.save() of line 51 raises (the storage refuses the write): nothing is
\* stored for this flow, and lines 60-62 log the exception and raise it again.
EnrichFail ==
    /\ enr.pc = "save"
    /\ enr' = [enr EXCEPT !.pc = "failed", !.batch = {}]
    /\ UNCHANGED <<rec, ws, inv, channel, time, flowTable, statTable, alertTable, agg, alertTasks, selected, api>>

\* The loop of lines 283-294 over an ordered queryset: the primary keys of
\* the rows, newest first.
RECURSIVE flow_data(_)
flow_data(rows) ==
    IF rows = {} THEN <<>>
    ELSE <<FirstOf(rows).id>> \o flow_data(rows \ {FirstOf(rows)})

\* (a message with all flows of the last five minutes)
send_flow_updates_all(fs, now) ==
    [group |-> "flows", type |-> "flow_update",
     data |-> {f.id : f \in {g \in fs : g.timestamp >= now - 5 * Minute}},
     flow_data |-> flow_data({g \in fs : g.timestamp >= now - 5 * Minute})]

\* send_flow_updates (tasks.py:273-306): the ten newest flows of the last
\* five minutes go to group "flows"; data holds their primary keys and
\* flow_data lists them in the order of the payload.
send_flow_updates(fs, now) ==
    [group |-> "flows", type |-> "flow_update",
     data |-> {f.id : f \in Slice({g \in fs : g.timestamp >= now - 5 * Minute}, 0, 10)},
     flow_data |-> flow_data(Slice({g \in fs : g.timestamp >= now - 5 * Minute}, 0, 10))]

\* Line 56, send_flow_updates, then the task returns.
EnrichSend ==
    /\ enr.pc = "send"
    /\ ws.published < MaxPublished
    /\ enr' = [enr EXCEPT !.pc = "done", !.sent = @ + 1]
    /\ channel' = channel \cup {send_flow_updates(flows, clock)}
    /\ ws' = group_send(ws, {send_flow_updates(flows, clock)})
    /\ UNCHANGED <<rec, inv, time, flowTable, statTable, alertTable, agg, alertTasks, selected, api>>

\* (an exception of the channel layer that leaves send_flow_updates and is
\* raised again by lines 60-62)
EnrichSendRaise ==
    /\ enr.pc = "send"
    /\ enr' = [enr EXCEPT !.pc = "failed"]
    /\ UNCHANGED <<rec, ws, inv, channel, time, flowTable, statTable, alertTable, agg, alertTasks, selected, api>>

\* Line 56 when get_channel_layer or group_send raises inside
\* send_flow_updates: lines 305-306 catch every Exception and log it, nothing
\* is published, and the task goes on to line 58 and returns.
EnrichSendFail ==
    /\ enr.pc = "send"
    /\ enr' = [enr EXCEPT !.pc = "done"]
    /\ UNCHANGED <<rec, ws, inv, channel, time, flowTable, statTable, alertTable, agg, alertTasks, selected, api>>

-----------------------------------------------------------------------------
(* Table flow_alerts and check_flow_alerts (tasks.py:155-177, 345-451) *)

\* What FlowAlert.objects.create is given; subject stands for what title and
\* description name (a flow, a source, a destination).  The row gets its
\* primary key and its timestamp (auto_now_add, models.py:208) on insert;
\* acknowledged, acknowledged_by and acknowledged_at take their defaults
\* (models.py:209-216).  threshold_value of a bandwidth spike is avg * 5 in
\* whole Mbps.
AlertRow(type, severity, flow, subject, threshold, value, now) ==
    [id |-> 0, alert_type |-> type, severity |-> severity, flow |-> flow,
     subject |-> subject, threshold_value |-> threshold,
     current_value |-> value, timestamp |-> now,
     acknowledged |-> FALSE, acknowledged_by |-> None, acknowledged_at |-> None]

\* The rows of one heuristic get consecutive primary keys from base on.
WithIds(rows, base) ==
    {[r EXCEPT !.id = base + Cardinality({q \in rows : q.subject < r.subject})]
        : r \in rows}

\* NetworkFlow.objects.filter(timestamp__gte=now - timedelta(minutes=5)),
\* the selection every heuristic starts from (lines 349-351, 376-378,
\* 404-406, 431-433).
recent_flows(fs, now) == {f \in fs : f.timestamp >= now - 5 * Minute}

\* Python's a / b, in whole units: ZeroDivisionError when b is 0.
ZeroDivisionError == 0 - 2

truediv(a, b) == IF b = 0 THEN ZeroDivisionError ELSE a \div b

\* (the division without the test of the duration)
bandwidth_unguarded(f) == truediv(f.bytes * 8, f.duration * 1000000)

\* NetworkFlow.bandwidth_mbps (models.py:108-113), in whole Mbps.
bandwidth_mbps(f) ==
    IF f.duration > 0 THEN truediv(f.bytes * 8, f.duration * 1000000) ELSE 0

\* NetworkFlow.packets_per_second (models.py:115-120), in whole packets.
packets_per_second(f) ==
    IF f.duration > 0 THEN truediv(f.packets, f.duration) ELSE 0

RECURSIVE SumBandwidth(_)
SumBandwidth(fs) ==
    IF fs = {} THEN 0
    ELSE LET f == CHOOSE g \in fs : TRUE
         IN bandwidth_mbps(f) + SumBandwidth(fs \ {f})

MaxBandwidth(fs) ==
    bandwidth_mbps(CHOOSE f \in fs : \A g \in fs : bandwidth_mbps(g) <= bandwidth_mbps(f))

\* (a heuristic that alerts for every maximum above 100 Mbps)
check_bandwidth_peak(fs, now) ==
    LET recent == recent_flows(fs, now) IN
    IF recent = {} \/ MaxBandwidth(recent) <= 100 THEN {}
    ELSE {AlertRow("bandwidth_spike", "medium", None, 0,
                   (SumBandwidth(recent) * 5) \div Cardinality(recent),
                   MaxBandwidth(recent), now)}

\* check_bandwidth_spikes (lines 345-369).  Lines 354-355 aggregate over
\* 'bandwidth_mbps'; when the name does not resolve the exception is caught
\* at line 368 and nothing is created.  max > avg * 5 is compared as
\* max * n > sum * 5.
check_bandwidth_spikes(fs, now) ==
    LET recent == recent_flows(fs, now) IN
    IF recent = {} \/ ~Resolves("bandwidth_mbps") THEN {}
    ELSE LET max_bandwidth == MaxBandwidth(recent) IN
         IF /\ max_bandwidth * Cardinality(recent) > SumBandwidth(recent) * 5
            /\ max_bandwidth > 100
         THEN {AlertRow("bandwidth_spike", "medium", None, 0,
                        (SumBandwidth(recent) * 5) \div Cardinality(recent),
                        max_bandwidth, now)}
         ELSE {}

\* The heuristic without the exclusion of lines 381-383: an alert for every
\* recent flow.
check_all_protocols(fs, now) ==
    {AlertRow("unusual_protocol", "low", f.id, f.id, None, f.protocol, now)
        : f \in recent_flows(fs, now)}

\* check_unusual_protocols (lines 372-397): one alert per recent flow whose
\* protocol is none of ICMP, TCP, UDP; the alert references the flow.
check_unusual_protocols(fs, now) ==
    {AlertRow("unusual_protocol", "low", f.id, f.id, None, f.protocol, now)
        : f \in {g \in recent_flows(fs, now) : g.protocol \notin {1, 6, 17}}}

\* check_port_scans (lines 400-424): one alert per source that reached 10 or
\* more distinct destination ports.
check_port_scans(fs, now) ==
    LET recent == recent_flows(fs, now)
        unique_ports(src) == Cardinality({f.dst_port : f \in {g \in recent : g.src_ip = src}})
    IN {AlertRow("port_scan", "medium", None, src, 10, unique_ports(src), now)
           : src \in {s \in {f.src_ip : f \in recent} : unique_ports(s) >= 10}}

\* check_ddos_patterns (lines 427-451): one alert per destination that 50 or
\* more distinct sources reached.
check_ddos_patterns(fs, now) ==
    LET recent == recent_flows(fs, now)
        unique_sources(dst) == Cardinality({f.src_ip : f \in {g \in recent : g.dst_ip = dst}})
    IN {AlertRow("ddos_attack", "high", None, dst, 50, unique_sources(dst), now)
           : dst \in {d \in {f.dst_ip : f \in recent} : unique_sources(d) >= 50}}

\* (a create that leaves out a row when an alert with the same content is
\* stored)
CreateAlertsNew(rows) ==
    LET new == {r \in rows : ~\E a \in alerts : [a EXCEPT !.id = 0] = r} IN
    /\ alerts' = alerts \cup WithIds(new, nextAlert)
    /\ nextAlert' = nextAlert + Cardinality(new)

\* FlowAlert.objects.create for the rows one heuristic produced.
CreateAlerts(rows) ==
    /\ alerts' = alerts \cup WithIds(rows, nextAlert)
    /\ nextAlert' = nextAlert + Cardinality(rows)

\* History of an invocation of check_flow_alerts: now when it started, the
\* next primary key of flow_alerts when it started, the heuristics it has
\* called, the heuristics in which an exception was raised, whether it has
\* ended, whether it ended by the raise of line 177; and the flows the loop
\* of check_unusual_protocols has fetched and not yet visited.
NoInvocation ==
    [now |-> None, base |-> 1, ran |-> {}, faults |-> {}, done |-> FALSE,
     failed |-> FALSE, loaded |-> {}]

\* The scheduler starts check_flow_alerts (line 156).
CheckStart ==
    /\ chk = "idle"
    /\ nextAlert <= MaxAlerts
    /\ chk' = "bandwidth"
    /\ inv' = [NoInvocation EXCEPT !.now = clock, !.base = nextAlert]
    /\ UNCHANGED <<rec, ws, channel, time, flowTable, statTable, alertTable, agg, enr, swp, ack, selected, api>>

\* Line 162.  An exception of the aggregation is caught at line 368.
CheckBandwidth ==
    /\ chk = "bandwidth"
    /\ CreateAlerts(check_bandwidth_spikes(flows, clock))
    /\ chk' = "protocols"
    /\ inv' = [inv EXCEPT !.ran = @ \cup {"bandwidth"},
                           !.faults =
                  IF recent_flows(flows, clock) # {} /\ ~Resolves("bandwidth_mbps")
                  THEN @ \cup {"bandwidth"} ELSE @]
    /\ UNCHANGED <<rec, ws, channel, time, flowTable, statTable, agg, enr, swp, ack, selected, api>>

\* Line 165.
CheckProtocols ==
    /\ chk = "protocols"
    /\ CreateAlerts(check_unusual_protocols(flows, clock))
    /\ chk' = "ports"
    /\ inv' = [inv EXCEPT !.ran = @ \cup {"protocols"}]
    /\ UNCHANGED <<rec, ws, channel, time, flowTable, statTable, agg, enr, swp, ack, selected, api>>

\* Line 165 step by step.  Lines 376-385: the loop fetches the recent flows
\* of unusual protocol.
CheckProtocolsLoad ==
    /\ chk = "protocols"
    /\ chk' = "creating"
    /\ inv' = [inv EXCEPT !.loaded = {g \in recent_flows(flows, clock) : g.protocol \notin {1, 6, 17}}]
    /\ UNCHANGED <<rec, ws, channel, time, flowTable, statTable, alertTable, agg, enr, swp, ack, selected, api>>

\* Lines 386-394 for the next fetched flow: the alert that references it is
\* inserted.  The foreign key (models.py:204) refuses the insert when the
\* flow is gone from network_flows; the IntegrityError is caught at line 396
\* and the heuristic returns.
CheckProtocolsCreate ==
    /\ chk = "creating"
    /\ IF inv.loaded = {}
       THEN /\ chk' = "ports"
            /\ inv' = [inv EXCEPT !.ran = @ \cup {"protocols"}]
            /\ UNCHANGED alertTable
       ELSE LET flow == FirstOf(inv.loaded) IN
            IF \E f \in flows : f.id = flow.id
            THEN /\ CreateAlerts({AlertRow("unusual_protocol", "low", flow.id, flow.id,
                                           None, flow.protocol, clock)})
                 /\ inv' = [inv EXCEPT !.loaded = @ \ {flow}]
                 /\ UNCHANGED chk
            ELSE /\ chk' = "ports"
                 /\ inv' = [inv EXCEPT !.loaded = {}, !.ran = @ \cup {"protocols"},
                                        !.faults = @ \cup {"protocols"}]
                 /\ UNCHANGED alertTable
    /\ UNCHANGED <<rec, ws, channel, time, flowTable, statTable, agg, enr, swp, ack, selected, api>>

\* Line 168.
CheckPorts ==
    /\ chk = "ports"
    /\ CreateAlerts(check_port_scans(flows, clock))
    /\ chk' = "ddos"
    /\ inv' = [inv EXCEPT !.ran = @ \cup {"ports"}]
    /\ UNCHANGED <<rec, ws, channel, time, flowTable, statTable, agg, enr, swp, ack, selected, api>>

\* Line 171, then the task returns.
CheckDdos ==
    /\ chk = "ddos"
    /\ CreateAlerts(check_ddos_patterns(flows, clock))
    /\ chk' = "idle"
    /\ inv' = [inv EXCEPT !.ran = @ \cup {"ddos"}, !.done = TRUE]
    /\ UNCHANGED <<rec, ws, channel, time, flowTable, statTable, agg, enr, swp, ack, selected, api>>

\* The four heuristics in the order of lines 162-171.
Heuristics == <<"bandwidth", "protocols", "ports", "ddos">>

HeuristicType(h) ==
    CASE h = "bandwidth" -> "bandwidth_spike"
      [] h = "protocols" -> "unusual_protocol"
      [] h = "ports"     -> "port_scan"
      [] h = "ddos"      -> "ddos_attack"

HeuristicRows(h, fs, now) ==
    CASE h = "bandwidth" -> check_bandwidth_spikes(fs, now)
      [] h = "protocols" -> check_unusual_protocols(fs, now)
      [] h = "ports"     -> check_port_scans(fs, now)
      [] h = "ddos"      -> check_ddos_patterns(fs, now)

\* Where check_flow_alerts goes on after heuristic h returned.
Following(h) ==
    CASE h = "bandwidth" -> "protocols"
      [] h = "protocols" -> "ports"
      [] h = "ports"     -> "ddos"
      [] h = "ddos"      -> "idle"

\* A heuristic without its try block: the exception leaves the heuristic,
\* check_flow_alerts logs it at line 176, raises and the task has failed.
CheckFaultAbort(h) ==
    /\ chk = h
    /\ \E part \in SUBSET HeuristicRows(h, flows, clock) :
          CreateAlerts(part)
    /\ chk' = "idle"
    /\ inv' = [inv EXCEPT !.ran = @ \cup {h}, !.faults = @ \cup {h},
                           !.done = TRUE, !.failed = TRUE]
    /\ UNCHANGED <<rec, ws, channel, time, flowTable, statTable, agg, enr, swp, ack, selected, api>>

\* A statement of heuristic h raises (the database is the one callee): the
\* alerts created so far stay, the except clause of the heuristic (lines
\* 368, 396, 423, 450) logs the error and the heuristic returns normally.
CheckFault(h) ==
    /\ chk = h
    /\ \E part \in SUBSET HeuristicRows(h, flows, clock) :
          CreateAlerts(part)
    /\ chk' = Following(h)
    /\ inv' = [inv EXCEPT !.ran = @ \cup {h}, !.faults = @ \cup {h},
                           !.done = (h = "ddos")]
    /\ UNCHANGED <<rec, ws, channel, time, flowTable, statTable, agg, enr, swp, ack, selected, api>>

-----------------------------------------------------------------------------
(* cleanup_old_flows (tasks.py:116-152) *)

\* Line 122: the default of FLOW_RETENTION_DAYS.
retention_days == 30

\* Line 142.
alert_retention_days == 90

IdleSweep == [pc |-> "idle", cutoff_date |-> None]

\* (a delete that leaves the alerts alone)
CascadeNone(al, deleted) == al

\* QuerySet.delete() on flows: FlowAlert.flow is on_delete=CASCADE
\* (models.py:204), so the alerts that reference a deleted flow go too.
CascadeAlerts(al, deleted) == {a \in al : a.flow \notin {f.id : f \in deleted}}

\* Lines 122-123.
SweepStart ==
    /\ swp.pc = "idle"
    /\ swp' = [pc |-> "flows", cutoff_date |-> clock - retention_days * Day]
    /\ UNCHANGED <<rec, ws, inv, channel, time, flowTable, statTable, alertTable, agg, enr, chk, ack, selected, api>>

\* Lines 126-131.
SweepFlows ==
    /\ swp.pc = "flows"
    /\ LET old_flows == {f \in flows : f.timestamp < swp.cutoff_date} IN
         /\ flows' = flows \ old_flows
         /\ alerts' = CascadeAlerts(alerts, old_flows)
    /\ swp' = [swp EXCEPT !.pc = "stats"]
    /\ UNCHANGED <<rec, ws, inv, channel, time, nextFlow, statTable, nextAlert, agg, enr, chk, ack, selected, api>>

\* Lines 134-139.
SweepStats ==
    /\ swp.pc = "stats"
    /\ stats' = {r \in stats : ~(r.timestamp < swp.cutoff_date)}
    /\ swp' = [swp EXCEPT !.pc = "alerts"]
    /\ UNCHANGED <<rec, ws, inv, channel, time, flowTable, nextStat, alertTable, agg, enr, chk, ack, selected, api>>

\* Lines 142-148, then the task returns.
SweepAlerts ==
    /\ swp.pc = "alerts"
    /\ LET alert_cutoff == clock - alert_retention_days * Day IN
         alerts' = {a \in alerts : ~(a.timestamp < alert_cutoff)}
    /\ swp' = IdleSweep
    /\ UNCHANGED <<rec, ws, inv, channel, time, flowTable, statTable, nextAlert, agg, enr, chk, ack, selected, api>>

-----------------------------------------------------------------------------
(* The alerts endpoint (api/views.py:96-124, api/serializers.py:40-51) *)

\* Line 117, get_object: the request of user u loads an alert.
AckLoad(u) ==
    /\ ack[u] = <<>>
    /\ \E a \in alerts : ack' = [ack EXCEPT ![u] = <<a>>]
    /\ UNCHANGED <<rec, ws, inv, channel, time, flowTable, statTable, alertTable, agg, enr, chk, swp, selected, api>>

\* An endpoint that leaves an acknowledged alert as it is.
AckSaveOnce(u) ==
    /\ ack[u] # <<>>
    /\ LET alert == [ack[u][1] EXCEPT !.acknowledged = TRUE,
                                      !.acknowledged_by = u,
                                      !.acknowledged_at = clock]
       IN IF \E a \in alerts : a.id = alert.id /\ ~a.acknowledged
          THEN alerts' = SaveRow(alerts, alert)
          ELSE UNCHANGED alerts
    /\ ack' = [ack EXCEPT ![u] = <<>>]
    /\ UNCHANGED <<rec, ws, inv, channel, time, flowTable, statTable, nextAlert, agg, enr, chk, swp, selected, api>>

\* (an endpoint that writes the caller into the stored row and the time only
\* when the stored row has none)
AckSaveSplit(u) ==
    /\ ack[u] # <<>>
    /\ alerts' = {IF a.id = ack[u][1].id
                  THEN [a EXCEPT !.acknowledged = TRUE,
                                 !.acknowledged_by = u,
                                 !.acknowledged_at = IF @ = None THEN clock ELSE @]
                  ELSE a : a \in alerts}
    /\ ack' = [ack EXCEPT ![u] = <<>>]
    /\ UNCHANGED <<rec, ws, inv, channel, time, flowTable, statTable, nextAlert, agg, enr, chk, swp, selected, api>>

\* Lines 118-121: the three fields are set on the loaded alert and it is
\* saved.  Model.save() updates the row with the alert's primary key; when
\* the row is gone it inserts the alert again, which the foreign key to a
\* flow that is gone too refuses.
AckSave(u) ==
    /\ ack[u] # <<>>
    /\ LET alert == [ack[u][1] EXCEPT !.acknowledged = TRUE,
                                      !.acknowledged_by = u,
                                      !.acknowledged_at = clock]
       IN IF \/ \E a \in alerts : a.id = alert.id
             \/ alert.flow = None
             \/ \E f \in flows : f.id = alert.flow
          THEN alerts' = SaveRow(alerts, alert)
          ELSE UNCHANGED alerts
    /\ ack' = [ack EXCEPT ![u] = <<>>]
    /\ UNCHANGED <<rec, ws, inv, channel, time, flowTable, statTable, nextAlert, agg, enr, chk, swp, selected, api>>

\* The fields of FlowAlertSerializer a client of this model sets through
\* PATCH /alerts/<pk>/.  The serializer lists all fields of the model and
\* makes only 'timestamp' read-only (serializers.py:47-51).
PatchFields == {"acknowledged", "acknowledged_at"}

\* PATCH /alerts/<pk>/ (FlowAlertViewSet is a ModelViewSet, views.py:96-99):
\* partial_update through FlowAlertSerializer with one field.
ApiPatchAlert ==
    /\ \E a \in alerts, field \in PatchFields :
          alerts' = SaveRow(alerts,
                       IF field = "acknowledged"
                       THEN [a EXCEPT !.acknowledged = TRUE]
                       ELSE [a EXCEPT !.acknowledged_at = clock])
    /\ UNCHANGED <<rec, ws, inv, channel, time, flowTable, statTable, nextAlert, agg, enr, alertTasks, selected, api>>

-----------------------------------------------------------------------------
(* FlowConsumer (flows/consumers.py:11-138) *)

\* A frame the consumer sends to its client.  n is the number the layer
\* gave the message the frame was made from, 0 for a frame of the consumer's
\* own.
Frame(type, data, statistics, n) ==
    [type |-> type, data |-> data, statistics |-> statistics, n |-> n]

\* get_recent_flows (lines 79-95): the ten newest flows of the last five
\* minutes, by primary key.
get_recent_flows(fs, now) ==
    {f.id : f \in Slice({g \in fs : g.timestamp >= now - 5 * Minute}, 0, 10)}

\* get_current_statistics (lines 97-116): the newest "1m" snapshot of the
\* last five minutes, or None.
get_current_statistics(st, now) == LatestStatistics(st, now)

\* A consumer that looks for the newest "1m" snapshot of any age.
get_latest_statistics(st, now) ==
    LET all == {r \in st : r.period = "1m"}
    IN IF all = {} THEN None
       ELSE (CHOOSE r \in all : \A q \in all : q.timestamp <= r.timestamp).timestamp

\* Lines 16-21: the connection is accepted and its channel joins "flows".
WsConnect(s) ==
    /\ ws.sub[s].conn = "closed"
    /\ ws' = [ws EXCEPT !.sub[s].conn = "joined", !.sub[s].groups = @ \cup {"flows"}]
    /\ UNCHANGED <<rec, inv, channel, time, flowTable, statTable, alertTable, agg, enr, alertTasks, selected, api>>

\* Line 24, send_initial_data (lines 118-129), after the two queries.  The
\* consumer takes the next event only when connect has returned.
WsInitial(s) ==
    /\ ws.sub[s].conn = "joined"
    /\ ws' = [ws EXCEPT
                !.sub[s].conn = "open",
                !.sub[s].socket = Append(@, Frame("initial_data",
                                                  get_recent_flows(flows, clock),
                                                  get_current_statistics(stats, clock), 0))]
    /\ UNCHANGED <<rec, inv, channel, time, flowTable, statTable, alertTable, agg, enr, alertTasks, selected, api>>

\* A consumer that sends the initial data once more with every event.
WsDispatchInitial(s) ==
    /\ ws.sub[s].conn = "open"
    /\ ws.sub[s].inbox # <<>>
    /\ LET event == Head(ws.sub[s].inbox) IN
         ws' = [ws EXCEPT
                  !.sub[s].inbox = Tail(@),
                  !.sub[s].socket = Append(Append(@, Frame(event.type, event.data, None, event.n)),
                                           Frame("initial_data",
                                                 get_recent_flows(flows, clock),
                                                 get_current_statistics(stats, clock), 0))]
    /\ UNCHANGED <<rec, inv, channel, time, flowTable, statTable, alertTable, agg, enr, alertTasks, selected, api>>

\* The consumer takes the next event of its channel: flow_update (lines
\* 58-63) or statistics_update (lines 65-70) sends it on as a frame.
WsDispatch(s) ==
    /\ ws.sub[s].conn = "open"
    /\ ws.sub[s].inbox # <<>>
    /\ LET event == Head(ws.sub[s].inbox) IN
         ws' = [ws EXCEPT
                  !.sub[s].inbox = Tail(@),
                  !.sub[s].socket = Append(@, Frame(event.type, event.data, None, event.n))]
    /\ UNCHANGED <<rec, inv, channel, time, flowTable, statTable, alertTable, agg, enr, alertTasks, selected, api>>

\* The frames a client sends: text that is no JSON, a binary frame, JSON
\* text that is a list, and the three requests receive knows.
ClientFrames ==
    {"invalid_text", "binary", "json_list", "subscribe", "unsubscribe", "get_stats"}

\* The frames around the per-flow groups: subscribe and unsubscribe with the
\* id of a flow, subscribe without flow_id, a type receive does not know, and
\* subscribe with a flow_id that holds a character no group name may hold
\* (a blank, say).
SubscriptionFrames ==
    {"subscribe", "unsubscribe", "subscribe_no_flow_id", "unknown_type",
     "subscribe_invalid_name"}

MaxFrames == 1

\* The group of the flow a client subscribes to (line 41).
FlowGroup == "flow_1"

\* receive (lines 31-56) for one client frame.  Text that json.loads does
\* not decode is answered with an error frame (lines 53-56).  A binary
\* frame reaches receive as the keyword argument bytes_data, which receive
\* does not take, and a JSON list has no get: the TypeError or
\* AttributeError is not caught, the consumer ends and its channel stays in
\* its groups.  The same holds for the TypeError group_add raises at line 41
\* for a name that is no valid group name.
receive(s, frame) ==
    LET c == ws.sub[s]
        got == [c EXCEPT !.received = Append(@, frame)]
    IN
    /\ c.conn = "open"
    /\ ws' = [ws EXCEPT !.sub[s] =
                CASE frame = "invalid_text" ->
                       [got EXCEPT !.socket = Append(@, Frame("error", {}, None, 0))]
                  [] frame \in {"binary", "json_list", "subscribe_invalid_name"} ->
                       [got EXCEPT !.conn = "crashed"]
                  [] frame \in {"subscribe_no_flow_id", "unknown_type"} -> got
                  [] frame = "subscribe" ->
                       [got EXCEPT !.groups = @ \cup {FlowGroup}]
                  [] frame = "unsubscribe" ->
                       [got EXCEPT !.groups = @ \ {FlowGroup}]
                  [] frame = "get_stats" ->
                       [got EXCEPT !.socket =
                          Append(@, Frame("statistics", {},
                                          get_current_statistics(stats, clock), 0))]]
    /\ UNCHANGED <<rec, inv, channel, time, flowTable, statTable, alertTable, agg, enr, alertTasks, selected, api>>

\* A client sends a frame, at most MaxFrames frames on a connection.
WsReceive(s, frame) ==
    /\ Len(ws.sub[s].received) < MaxFrames
    /\ receive(s, frame)

\* A client sends a frame about the per-flow group, at most MaxRequests
\* frames on a connection.
MaxRequests == 2

WsRequest(s, frame) ==
    /\ Len(ws.sub[s].received) < MaxRequests
    /\ receive(s, frame)

\* disconnect (lines 26-29): the channel leaves "flows".
WsDisconnect(s) ==
    /\ ws.sub[s].conn = "open"
    /\ ws' = [ws EXCEPT !.sub[s].conn = "gone", !.sub[s].groups = @ \ {"flows"}]
    /\ UNCHANGED <<rec, inv, channel, time, flowTable, statTable, alertTable, agg, enr, alertTasks, selected, api>>

-----------------------------------------------------------------------------
(* NetworkFlow instances (flows/models.py:78-120) *)

\* The instances of the model.
Instances == {1, 2}

\* No instance is in memory.
NoInstances == <<>>

\* An instance as NetworkFlow(...) builds it from the six identifying
\* attributes, a timestamp, the measurements and, may be, a flow_id; the
\* other columns take their defaults (models.py:16-62).  An empty string is
\* the empty sequence.
NewInstance(src_ip, src_port, dst_ip, dst_port, protocol, first_seen, timestamp, packets, bytes, duration, flow_id) ==
    [src_ip |-> src_ip, src_port |-> src_port, dst_ip |-> dst_ip,
     dst_port |-> dst_port, protocol |-> protocol, first_seen |-> first_seen,
     timestamp |-> timestamp, packets |-> packets, bytes |-> bytes,
     duration |-> duration, flow_id |-> flow_id, protocol_name |-> <<>>,
     generated |-> FALSE, state |-> "new",
     bandwidth_mbps |-> None, packets_per_second |-> None]

\* datetime.isoformat(): the date, then the time of day.
isoformat(t) == <<t \div Day, t % Day>>

\* hashlib.sha256(...).hexdigest()[:16] (line 93): a digest of the whole
\* string in a space of DigestSpace values, so that different strings may
\* have the same digest.
DigestSpace == 16

RECURSIVE sha256(_)
sha256(string) ==
    IF string = <<>> THEN 7
    ELSE (31 * sha256(SubSeq(string, 1, Len(string) - 1)) + string[Len(string)])
            % DigestSpace

\* (a flow id that also takes the timestamp of the flow into the string)
generate_flow_id_stamped(r) ==
    <<sha256(<<r.src_ip, r.src_port, r.dst_ip, r.dst_port, r.protocol>>
             \o isoformat(r.first_seen) \o isoformat(r.timestamp))>>

\* _generate_flow_id (lines 89-93): the digest of
\* "src_ip:src_port:dst_ip:dst_port:protocol:first_seen.isoformat()".
generate_flow_id(r) ==
    <<sha256(<<r.src_ip, r.src_port, r.dst_ip, r.dst_port, r.protocol>>
             \o isoformat(r.first_seen))>>

\* _get_protocol_name (lines 95-106).
get_protocol_name(r) ==
    CASE r.protocol = 1 -> <<"ICMP">>
      [] r.protocol = 6 -> <<"TCP">>
      [] r.protocol = 17 -> <<"UDP">>
      [] r.protocol = 47 -> <<"GRE">>
      [] r.protocol = 50 -> <<"ESP">>
      [] r.protocol = 51 -> <<"AH">>
      [] r.protocol = 89 -> <<"OSPF">>
      [] OTHER -> <<"PROTO_", r.protocol>>

\* NetworkFlow.save (lines 78-87): an empty flow_id is generated, an empty
\* protocol_name is looked up, then the row is stored; flow_id is unique
\* (line 16), so the store refuses a flow_id that a stored row has.
save(i) ==
    /\ i \in DOMAIN rec
    /\ rec[i].state = "new"
    /\ LET r == rec[i]
           a == IF r.flow_id = <<>>
                THEN [r EXCEPT !.flow_id = generate_flow_id(r), !.generated = TRUE]
                ELSE r
           b == IF a.protocol_name = <<>>
                THEN [a EXCEPT !.protocol_name = get_protocol_name(a)]
                ELSE a
           taken == \E j \in DOMAIN rec \ {i} :
                       rec[j].state = "saved" /\ rec[j].flow_id = b.flow_id
       IN rec' = [rec EXCEPT ![i] =
                    [b EXCEPT !.state = IF taken THEN "IntegrityError" ELSE "saved"]]
    /\ UNCHANGED <<ws, inv, channel, time, flowTable, statTable, alertTable, agg, enr, alertTasks, selected, api>>

\* The properties bandwidth_mbps and packets_per_second are read
\* (lines 108-120; consumers.py:93, admin.py:48).
ReadDerived(i) ==
    /\ i \in DOMAIN rec
    /\ rec[i].bandwidth_mbps = None
    /\ rec' = [rec EXCEPT ![i].bandwidth_mbps = bandwidth_mbps(rec[i]),
                          ![i].packets_per_second = packets_per_second(rec[i])]
    /\ UNCHANGED <<ws, inv, channel, time, flowTable, statTable, alertTable, agg, enr, alertTasks, selected, api>>

-----------------------------------------------------------------------------
(* Specification of the aggregator *)

\* Everything but the flow table after deployment.
InitRest ==
    /\ clock = T0
    /\ ticks = 0
    /\ stats = {}
    /\ nextStat = 1
    /\ alerts = {}
    /\ nextAlert = 1
    /\ agg = [w \in Workers |-> IdleWorker]
    /\ enr = IdleEnrich
    /\ chk = "idle"
    /\ swp = IdleSweep
    /\ ack = [u \in Users |-> <<>>]
    /\ channel = {}
    /\ inv = NoInvocation
    /\ ws = NoChannels
    /\ rec = NoInstances
    /\ selected = {}
    /\ api = "none"

Init ==
    /\ flows = {}
    /\ nextFlow = 1
    /\ InitRest

Next ==
    \/ Tick
    \/ CollectFlow
    \/ \E w \in Workers : AggStart(w)
    \/ \E w \in Workers : AggCheck(w)
    \/ \E w \in Workers : AggCreate(w)
    \/ \E w \in Workers : AggSend(w)
    \/ \E w \in Workers : AggCrash(w)

Spec == Init /\ [][Next]_vars

\* The aggregator beside the statistics endpoint of the API.
StoreWorkers == {1}

NextStore ==
    \/ Tick
    \/ CollectFlow
    \/ ApiCreateStatistics
    \/ \E w \in StoreWorkers : AggStart(w)
    \/ \E w \in StoreWorkers : AggCheck(w)
    \/ \E w \in StoreWorkers : AggCreate(w)
    \/ \E w \in StoreWorkers : AggSend(w)

SpecStore == Init /\ [][NextStore]_vars

-----------------------------------------------------------------------------
(* Specification of the enrichment task *)

\* The task finds up to this many unprocessed flows.
MaxPending == 101

\* n flows the collector stored, none processed, one per second.
PendingFlows(n) == {NewFlow(k, T0 - k, 6) : k \in 1..n}

InitEnrich ==
    /\ \E n \in 0..MaxPending :
          /\ flows = PendingFlows(n)
          /\ nextFlow = n + 1
    /\ InitRest

NextEnrich ==
    \/ EnrichStart
    \/ EnrichSlice
    \/ EnrichSave
    \/ EnrichFail
    \/ EnrichSend

SpecEnrich == InitEnrich /\ [][NextEnrich]_vars

-----------------------------------------------------------------------------
(* Specifications of the alert pipeline: detection, retention, the endpoint *)

MonthPasses == Advance(Months, MaxMonths)

CollectRecentFlow == InsertFlow(RecentFlowAge, Protocols)

NextAlert ==
    \/ MonthPasses
    \/ CollectRecentFlow
    \/ CheckStart
    \/ CheckBandwidth
    \/ CheckProtocols
    \/ CheckPorts
    \/ CheckDdos
    \/ SweepStart
    \/ SweepFlows
    \/ SweepStats
    \/ SweepAlerts

SpecAlert == Init /\ [][NextAlert]_vars

\* Detection beside the clients of the alerts endpoint.
NextAck ==
    \/ CollectRecentFlow
    \/ CheckStart
    \/ CheckBandwidth
    \/ CheckProtocols
    \/ CheckPorts
    \/ CheckDdos
    \/ \E u \in Users : AckLoad(u)
    \/ \E u \in Users : AckSave(u)
    \/ ApiPatchAlert

SpecAck == Init /\ [][NextAck]_vars

-----------------------------------------------------------------------------
(* Specification of the jobs around a stored snapshot *)

\* Snapshots come in through the statistics endpoint; the collector, the
\* aggregator and the retention sweep run beside it.
\* The collector deposits flows stamped in the minute before the current
\* one, the window of the "1m" snapshot of the current minute.
WindowFlowAge == {90}

MaxWindowFlows == 1

CollectWindowFlow ==
    /\ nextFlow <= MaxWindowFlows
    /\ InsertFlow(WindowFlowAge, {6})

NextFrame ==
    \/ MonthPasses
    \/ CollectWindowFlow
    \/ ApiCreateStatistics
    \/ \E w \in StoreWorkers : AggStart(w)
    \/ \E w \in StoreWorkers : AggCheck(w)
    \/ \E w \in StoreWorkers : AggCreate(w)
    \/ \E w \in StoreWorkers : AggSend(w)
    \/ SweepStart
    \/ SweepFlows
    \/ SweepStats
    \/ SweepAlerts

SpecFrame == Init /\ [][NextFrame]_vars

-----------------------------------------------------------------------------
(* Specification of the realtime channel *)

\* The stored snapshots a connection finds: none, the "1m" snapshot of the
\* current minute, a "1m" snapshot of ten minutes ago.
StoredStatistics ==
    {{}, {StatRow(1, "1m", Trunc(T0, Minute), 1)},
         {StatRow(1, "1m", Trunc(T0, Minute) - 10 * Minute, 1)}}

\* Flows of the last second wait for enrichment; they lie in no window of
\* the aggregator, which therefore creates nothing.
MaxWaiting == 1

InitSocket ==
    /\ \E n \in 0..MaxWaiting :
          /\ flows = PendingFlows(n)
          /\ nextFlow = n + 1
    /\ clock = T0
    /\ ticks = 0
    /\ \E st \in StoredStatistics :
          /\ stats = st
          /\ nextStat = Cardinality(st) + 1
    /\ alerts = {}
    /\ nextAlert = 1
    /\ agg = [w \in Workers |-> IdleWorker]
    /\ enr = IdleEnrich
    /\ chk = "idle"
    /\ swp = IdleSweep
    /\ ack = [u \in Users |-> <<>>]
    /\ channel = {}
    /\ inv = NoInvocation
    /\ ws = NoChannels
    /\ rec = NoInstances
    /\ selected = {}
    /\ api = "none"

\* The two publishers and the connections.
NextSocket ==
    \/ EnrichStart
    \/ EnrichSlice
    \/ EnrichSave
    \/ EnrichSend
    \/ \E w \in StoreWorkers : AggStart(w)
    \/ \E w \in StoreWorkers : AggCheck(w)
    \/ \E w \in StoreWorkers : AggSend(w)
    \/ \E s \in Subscribers : WsConnect(s)
    \/ \E s \in Subscribers : WsInitial(s)
    \/ \E s \in Subscribers : WsDispatch(s)
    \/ \E s \in Subscribers : WsDisconnect(s)

SpecSocket == InitSocket /\ [][NextSocket]_vars

\* The enrichment task publishes; the clients send frames.
NextReceive ==
    \/ EnrichStart
    \/ EnrichSlice
    \/ EnrichSave
    \/ EnrichSend
    \/ \E s \in Subscribers : WsConnect(s)
    \/ \E s \in Subscribers : WsInitial(s)
    \/ \E s \in Subscribers : WsDispatch(s)
    \/ \E s \in Subscribers, frame \in ClientFrames : WsReceive(s, frame)
    \/ \E s \in Subscribers : WsDisconnect(s)

SpecReceive == InitSocket /\ [][NextReceive]_vars

-----------------------------------------------------------------------------
(* Specification of repeated acknowledgement *)

\* n port-scan alerts of the last detection pass, none acknowledged.
StoredAlerts(n) ==
    {[AlertRow("port_scan", "medium", None, k, 10, 12, T0) EXCEPT !.id = k] : k \in 1..n}

InitReack ==
    /\ flows = {}
    /\ nextFlow = 1
    /\ clock = T0
    /\ ticks = 0
    /\ stats = {}
    /\ nextStat = 1
    /\ \E n \in 1..MaxAlerts :
          /\ alerts = StoredAlerts(n)
          /\ nextAlert = n + 1
    /\ agg = [w \in Workers |-> IdleWorker]
    /\ enr = IdleEnrich
    /\ chk = "idle"
    /\ swp = IdleSweep
    /\ ack = [u \in Users |-> <<>>]
    /\ channel = {}
    /\ inv = NoInvocation
    /\ ws = NoChannels
    /\ rec = NoInstances
    /\ selected = {}
    /\ api = "none"

\* The users acknowledge while time passes.
NextReack ==
    \/ Tick
    \/ \E u \in Users : AckLoad(u)
    \/ \E u \in Users : AckSave(u)

SpecReack == InitReack /\ [][NextReack]_vars

-----------------------------------------------------------------------------
(* Specifications of one detection pass over given traffic *)

MaxSources == 50
MaxPorts == 12
MaxQuiet == 5
MaxProbes == 2

\* A flow of the last minute, and one whose exporter stamped it a minute
\* ahead of the clock of the server.
LastMinute == T0 - Minute
Ahead == T0 + Minute

\* s sources reach destination 1 within the last minute; when t = 1 one
\* more source does, stamped ahead.
TrafficDdos(s, t) ==
    {[NewFlow(k, LastMinute, 6) EXCEPT !.src_ip = k] : k \in 1..s}
       \cup {[NewFlow(s + 1, Ahead, 6) EXCEPT !.src_ip = s + 1] : k \in 1..t}

\* Source 1 reaches p ports within the last minute; when r = 1 it reaches
\* port 1 a second time, when t = 1 it reaches one more port, stamped ahead.
TrafficScan(p, r, t) ==
    {[NewFlow(k, LastMinute, 6) EXCEPT !.dst_port = k] : k \in 1..p}
       \cup {[NewFlow(p + 1, LastMinute - 1, 6) EXCEPT !.dst_port = 1] : k \in 1..r}
       \cup {[NewFlow(p + 2, Ahead, 6) EXCEPT !.dst_port = p + 1] : k \in 1..t}

\* A flow of one second that ran at the given rate in Mbps.
FlowAtRate(id, mbps) ==
    [NewFlow(id, LastMinute, 6) EXCEPT !.bytes = mbps * 125000, !.duration = 1]

QuietRates == {0, 20}
PeakRates == {100, 101, 200}

\* q flows at a quiet rate and one at a peak rate.
TrafficRates(q, quiet, peak) ==
    {FlowAtRate(k, quiet) : k \in 1..q} \cup {FlowAtRate(q + 1, peak)}

ProbeProtocols == {1, 6, 17, 47}
ProbeAge == {0 - Minute, Minute, 5 * Minute, 5 * Minute + 1}

\* Flows of the given protocols and ages; a negative age is a stamp ahead.
TrafficProtocols(probes) ==
    {NewFlow(k, T0 - probes[k][2], probes[k][1]) : k \in 1..Len(probes)}

Traffic ==
    {TrafficDdos(s, t) : s \in 0..MaxSources, t \in 0..1}
       \cup {TrafficScan(p, r, t) : p \in 0..MaxPorts, r \in 0..1, t \in 0..1}
       \cup {TrafficRates(q, quiet, peak) : q \in 0..MaxQuiet, quiet \in QuietRates, peak \in PeakRates}
       \cup UNION {{TrafficProtocols(probes) : probes \in [1..n -> ProbeProtocols \X ProbeAge]}
                      : n \in 0..MaxProbes}

InitDetect ==
    /\ \E fs \in Traffic :
          /\ flows = fs
          /\ nextFlow = Cardinality(fs) + 1
    /\ InitRest

NextDetect ==
    \/ CheckStart
    \/ CheckBandwidth
    \/ CheckProtocols
    \/ CheckPorts
    \/ CheckDdos

SpecDetect == InitDetect /\ [][NextDetect]_vars

\* The same pass when statements of the heuristics may raise.
NextFault ==
    \/ NextDetect
    \/ \E h \in {Heuristics[i] : i \in 1..4} : CheckFault(h)

SpecFault == InitDetect /\ [][NextFault]_vars

-----------------------------------------------------------------------------
(* Claims about the aggregator *)

\* The rows of flow_statistics stored for period p with bucket start b.
SnapshotsOf(p, b) == {r \in stats : r.period = PeriodName[p] /\ r.timestamp = b}

\* The flows whose timestamp lies in the half-open window of period p that
\* ends at b.
WindowFlows(p, b) ==
    {f \in flows : b - TimeDelta[p] <= f.timestamp /\ f.timestamp < b}

\* The bucket of period p at the current time, truncated as line 83 does.
BucketNow(p) == Trunc(clock, TruncUnit[p])

C2_Idempotent ==
    \A w \in Workers :
        (/\ agg[w].pc \in {"done", "failed"}
         /\ agg[w].prior \in {"done", "failed"}
         /\ ~agg[w].stale)
        => /\ ~agg[w].wrote
           /\ \A p \in Periods :
                 WindowFlows(p, BucketNow(p)) # {}
                 => Cardinality(SnapshotsOf(p, BucketNow(p))) = 1

\* C4: the windows the aggregator selects for two different buckets of one
\* period share no flow.
C4_DisjointWindows ==
    \A a \in selected, b \in selected :
        (a.period = b.period /\ a.bucket # b.bucket)
        => WindowFlows(a.period, a.bucket) \cap WindowFlows(b.period, b.bucket) = {}

\* C6: an invocation that passed the exists-check of a period while another
\* invocation had passed it too does not end with an error.
C6_NoAbortOnRace ==
    \A w \in Workers : agg[w].raced => agg[w].pc # "failed"

\* C7: when a worker re-runs the aggregator after a crash, for the same now
\* and the same flows, and the re-run has ended, every period whose window
\* holds flows has exactly one snapshot.
C7_CrashSafe ==
    \A w \in Workers :
        (/\ agg[w].pc \in {"done", "failed"}
         /\ agg[w].prior = "crashed"
         /\ ~agg[w].stale)
        => \A p \in Periods :
              WindowFlows(p, BucketNow(p)) # {}
              => Cardinality(SnapshotsOf(p, BucketNow(p))) = 1

\* C8: when an invocation has ended and neither the clock nor the flows have
\* changed since it started, each period whose half-open window holds n > 0
\* flows has a snapshot with total_flows = n.
C8_CountsWindow ==
    \A w \in Workers :
        (agg[w].pc \in {"done", "failed"} /\ ~agg[w].stale)
        => \A p \in Periods :
              LET n == Cardinality(WindowFlows(p, BucketNow(p))) IN
              n > 0 => \E r \in SnapshotsOf(p, BucketNow(p)) : r.total_flows = n

-----------------------------------------------------------------------------
(* Claims about the enrichment task *)

\* C3: when an invocation of the enrichment task has completed, every flow
\* that was unprocessed when it started is processed.
C3_AllProcessed ==
    enr.pc = "done" => \A f \in flows : f.id \in enr.pending => f.processed

-----------------------------------------------------------------------------
(* Claims about the alert pipeline *)

\* C5: no step deletes an alert whose own timestamp is not older than 90
\* days before now, whatever the age of the flow it references.
C5_SweepByOwnAge ==
    [][\A a \in alerts :
          a.timestamp >= clock - alert_retention_days * Day
          => \E b \in alerts' : b.id = a.id]_vars

\* C9: an alert that references a flow was produced from a flow whose
\* timestamp lies in the five minutes before the alert's invocation:
\* now - 5 min <= flow.timestamp < now.
C9_RecentOnly ==
    \A a \in alerts : \A f \in flows :
        (a.alert_type = "unusual_protocol" /\ a.flow = f.id)
        => (a.timestamp - 5 * Minute <= f.timestamp /\ f.timestamp < a.timestamp)

\* C10: for every alert acknowledged_at is null exactly when acknowledged_by
\* is null, and an unacknowledged alert has both null.
C10_AckFieldsAgree ==
    \A a \in alerts :
        /\ (a.acknowledged_at = None) <=> (a.acknowledged_by = None)
        /\ ~a.acknowledged => (a.acknowledged_at = None /\ a.acknowledged_by = None)

\* C11: every alert check_flow_alerts created was published on group
\* "alerts", in a message that carries the alert.
C11_AlertsPublished ==
    \A a \in alerts :
        \E m \in channel : m.group = "alerts" /\ a.id \in m.data

\* C12: when a save failed and the invocation aborted, the flows it saved
\* before the failure are stored as processed with their enrichment fields,
\* every other flow is stored as it was when the invocation started, and the
\* invocation published nothing.
C12_AbortKeepsSaved ==
    enr.pc = "failed"
    => /\ \A f \in flows :
             IF f.id \in enr.saved
             THEN /\ f.processed
                  /\ f.src_country = get_geolocation(f.src_ip)[1]
                  /\ f.src_asn = get_asn(f.src_ip)
                  /\ \E b \in enr.before : b.id = f.id /\ ~b.processed
             ELSE f \in enr.before
       /\ {f.id : f \in flows} = {b.id : b \in enr.before}
       /\ enr.sent = 0

\* C12 witness: the invocation aborted after it had saved some flows of its
\* batch and before it saved the others.
C12_Witness ==
    /\ enr.pc = "failed"
    /\ enr.saved # {}
    /\ \E f \in flows : f.id \in enr.pending /\ f.id \notin enr.saved /\ ~f.processed

\* C13: a flow the task has loaded and not yet saved is stored unprocessed,
\* so the task never selects or writes a flow that is stored as processed;
\* and no step changes a flow that is stored as processed.
C13_ProcessedOnce ==
    /\ [](\A r \in enr.batch : \A f \in flows : f.id = r.id => ~f.processed)
    /\ [][\A f \in flows : f.processed => f \in flows']_vars

\* C13 witness: an invocation is saving flows while the store holds flows
\* that were processed before it started.
C13_Witness ==
    /\ enr.pc = "save"
    /\ \E b \in enr.before : b.processed

PeriodOf(r) == CHOOSE p \in Periods : PeriodName[p] = r.period

-----------------------------------------------------------------------------
(* Claims about the heuristics *)

\* The trailing window [now - 5 min, now) of an invocation.
InWindow(fs, now) == {f \in fs : f.timestamp >= now - 5 * Minute /\ f.timestamp < now}

\* The alerts of one type the last invocation created.
Produced(type) == {a \in alerts : a.id >= inv.base /\ a.alert_type = type}

\* C16: when check_flow_alerts has returned, a destination has a ddos_attack
\* alert of this invocation exactly when the flows of the window
\* [now - 5 min, now) towards it come from 50 or more distinct sources; it
\* then has exactly one, with threshold_value 50 and current_value the
\* number of distinct sources in the window.
C16_DdosThreshold ==
    inv.done =>
        \A dst \in {f.dst_ip : f \in flows} :
            LET n == Cardinality({f.src_ip : f \in {g \in InWindow(flows, inv.now) : g.dst_ip = dst}})
                as == {a \in Produced("ddos_attack") : a.subject = dst}
            IN IF n >= 50
               THEN /\ Cardinality(as) = 1
                    /\ \A a \in as : a.threshold_value = 50 /\ a.current_value = n
               ELSE as = {}

\* C17: when check_flow_alerts has returned, every source whose flows of the
\* window [now - 5 min, now) reach 10 or more distinct destination ports has
\* exactly one port_scan alert of this invocation, with threshold_value 10
\* and current_value the number of distinct ports in the window; a source
\* with fewer than 10 distinct ports in the window has none.
C17_PortScanThreshold ==
    inv.done =>
        \A src \in {f.src_ip : f \in flows} :
            LET n == Cardinality({f.dst_port : f \in {g \in InWindow(flows, inv.now) : g.src_ip = src}})
                as == {a \in Produced("port_scan") : a.subject = src}
            IN IF n >= 10
               THEN /\ Cardinality(as) = 1
                    /\ \A a \in as : a.threshold_value = 10 /\ a.current_value = n
               ELSE as = {}

\* C18: when check_flow_alerts has returned, this invocation has created
\* exactly one bandwidth_spike alert, with current_value the maximum and
\* threshold_value five times the average (in whole Mbps) of the per-flow
\* bandwidth over the window, if the maximum exceeds five times the average
\* and exceeds 100 Mbps, both strictly; it has created none otherwise.
C18_BandwidthSpike ==
    inv.done =>
        LET window == InWindow(flows, inv.now)
            as == Produced("bandwidth_spike")
        IN IF /\ window # {}
              /\ MaxBandwidth(window) * Cardinality(window) > SumBandwidth(window) * 5
              /\ MaxBandwidth(window) > 100
           THEN /\ Cardinality(as) = 1
                /\ \A a \in as :
                      /\ a.current_value = MaxBandwidth(window)
                      /\ a.threshold_value = (SumBandwidth(window) * 5) \div Cardinality(window)
           ELSE as = {}

\* C19: when check_flow_alerts has returned, every flow of the window
\* [now - 5 min, now) whose protocol is none of 1, 6, 17 has exactly one
\* unusual_protocol alert of this invocation that references it, of severity
\* low; a flow whose protocol is 1, 6 or 17 has none; every such alert
\* references a stored flow.
C19_UnusualProtocol ==
    inv.done =>
        /\ \A f \in flows :
              LET as == {a \in Produced("unusual_protocol") : a.flow = f.id}
              IN /\ (f \in InWindow(flows, inv.now) /\ f.protocol \notin {1, 6, 17})
                       => (Cardinality(as) = 1 /\ \A a \in as : a.severity = "low")
                 /\ f.protocol \in {1, 6, 17} => as = {}
        /\ \A a \in Produced("unusual_protocol") : \E f \in flows : a.flow = f.id

\* An invocation has returned over a window that holds a flow of protocol
\* 47 with its alert and a flow of a well-known protocol.
C19_Witness ==
    /\ inv.done
    /\ \E f, g \in InWindow(flows, inv.now) :
          /\ f.protocol = 47
          /\ g.protocol \in {1, 6, 17}
          /\ \E a \in Produced("unusual_protocol") : a.flow = f.id

\* C20: an invocation of check_flow_alerts never ends by a raise, and when
\* it has returned it has called all four heuristics; every heuristic in
\* which no exception was raised has created exactly the alerts it creates
\* over the stored flows, whichever of the other heuristics raised.
C20_FaultIsolated ==
    /\ ~inv.failed
    /\ inv.done =>
          /\ inv.ran = {Heuristics[i] : i \in 1..4}
          /\ \A h \in inv.ran \ inv.faults :
                {[a EXCEPT !.id = 0] : a \in Produced(HeuristicType(h))}
                   = HeuristicRows(h, flows, inv.now)

\* An invocation has returned in which the unusual-protocol heuristic
\* raised and the port-scan heuristic created its alert after it.
C20_Witness ==
    /\ inv.done
    /\ "protocols" \in inv.faults
    /\ "ports" \notin inv.faults
    /\ Produced("port_scan") # {}

-----------------------------------------------------------------------------
(* Claims about the retention sweep, the endpoint and the channel *)

\* C21: the step of the sweep over flows deletes exactly the flows older
\* than the cutoff of the invocation (now - retention_days) and no alert;
\* its step over snapshots deletes exactly the snapshots older than that
\* cutoff; its step over alerts deletes exactly the alerts older than
\* now - 90 days; every row that stays is unchanged.
C21_SweepExact ==
    [][/\ (swp.pc = "flows" /\ swp'.pc = "stats")
            => /\ flows' = {f \in flows : f.timestamp >= swp.cutoff_date}
               /\ stats' = stats
               /\ alerts' = alerts
       /\ (swp.pc = "stats" /\ swp'.pc = "alerts")
            => /\ stats' = {r \in stats : r.timestamp >= swp.cutoff_date}
               /\ flows' = flows
               /\ alerts' = alerts
       /\ (swp.pc = "alerts" /\ swp'.pc = "idle")
            => /\ alerts' = {a \in alerts : a.timestamp >= clock - alert_retention_days * Day}
               /\ flows' = flows
               /\ stats' = stats]_vars

\* C22: when the request of user u saves its acknowledgement of an alert
\* that is stored and already acknowledged, the stored alert afterwards
\* has acknowledged_by = u, acknowledged_at = now and acknowledged = TRUE,
\* every other field of it is as stored before, and no other alert changes.
C22_Reacknowledge ==
    [][\A u \in Users :
          (ack[u] # <<>> /\ ack'[u] = <<>>)
          => \A a \in alerts :
                IF a.id = ack[u][1].id
                THEN a.acknowledged
                       => [a EXCEPT !.acknowledged = TRUE,
                                    !.acknowledged_by = u,
                                    !.acknowledged_at = clock] \in alerts'
                ELSE a \in alerts']_vars

\* User 1 has acknowledged, a minute later, the alert that user 2, still
\* holding the copy of an older request, had acknowledged before.
C22_Witness ==
    \E a \in alerts :
        /\ a.acknowledged /\ a.acknowledged_by = 1 /\ a.acknowledged_at = T0 + Minute
        /\ ack[2] # <<>>
        /\ ack[2][1].id = a.id
        /\ ack[2][1].acknowledged /\ ack[2][1].acknowledged_by = 2
        /\ ack[2][1].acknowledged_at = T0

\* C29: an invocation of the aggregator that has returned has published a
\* statistics update only if it created a "1m" snapshot itself.
C29_PublishOnlyCreated ==
    \A w \in Workers :
        (agg[w].pc = "done" /\ agg[w].sent # None) => agg[w].made1m

\* The positions of the frames of message n in what connection s has sent
\* to its client.
Deliveries(s, n) ==
    {i \in 1..Len(ws.sub[s].socket) : ws.sub[s].socket[i].n = n}

\* C23: every published message has reached the client of a connection at
\* most once, and only if the channel of the connection was a member of the
\* group when the message was published; the channel of a connection that
\* joined later holds no copy of it either.
C23_AtMostOnce ==
    \A s \in Subscribers : \A n \in 1..ws.published :
        /\ Cardinality(Deliveries(s, n)) <= 1
        /\ s \notin ws.audience[n]
             => /\ Deliveries(s, n) = {}
                /\ \A i \in 1..Len(ws.sub[s].inbox) : ws.sub[s].inbox[i].n # n

\* Connection 1 has passed a published message on to its client, and
\* connection 2, which joined after the publish, is open with nothing but
\* its initial data.
C23_Witness ==
    /\ ws.published >= 1
    /\ 1 \in ws.audience[1] /\ 2 \notin ws.audience[1]
    /\ Deliveries(1, 1) # {}
    /\ ws.sub[2].conn = "open"
    /\ Len(ws.sub[2].socket) = 1
    /\ ws.sub[2].inbox = <<>>

\* What C24 says of connection s, with the statistics the initial data are
\* to carry: nothing is sent before connect has sent the initial data; from
\* then on the first frame, and no other, is initial_data, with the recent
\* flows and those statistics.
InitialDataFirst(s, statistics) ==
    LET c == ws.sub[s] IN
    IF c.conn \in {"closed", "joined"} THEN c.socket = <<>>
    ELSE /\ c.socket # <<>>
         /\ c.socket[1] = Frame("initial_data", get_recent_flows(flows, clock), statistics, 0)
         /\ \A i \in 2..Len(c.socket) : c.socket[i].type # "initial_data"

\* C24 (as the code has it): every connection to the flows channel gets
\* exactly one initial_data frame, before any flow_update or
\* statistics_update frame; it carries the recent flows and the newest "1m"
\* snapshot of the last five minutes, or null statistics when there is no
\* such snapshot.
C24_InitialDataFirst ==
    \A s \in Subscribers : InitialDataFirst(s, get_current_statistics(stats, clock))

\* C24 (as stated): the same, with the newest "1m" snapshot that exists, and
\* null statistics only when no "1m" snapshot exists.
C24_LatestOrNull ==
    \A s \in Subscribers : InitialDataFirst(s, get_latest_statistics(stats, clock))

\* A connection has got its initial data with null statistics, while a "1m"
\* snapshot of ten minutes ago is stored, and then a published update.
C24_Witness ==
    \E s \in Subscribers :
        /\ Len(ws.sub[s].socket) >= 2
        /\ ws.sub[s].socket[1].type = "initial_data"
        /\ ws.sub[s].socket[1].statistics = None
        /\ ws.sub[s].socket[2].type = "flow_update"
        /\ \E r \in stats : r.period = "1m"

\* The frames whose content cannot be decoded: text that is not JSON, and
\* binary data.
Undecodable == {"invalid_text", "binary"}

\* C25: when a subscriber sends input that cannot be decoded, an error
\* message is sent to that sender only; no other subscriber receives
\* anything, and the group memberships and all stored records are unchanged.
C25_MalformedReported ==
    [][\A s \in Subscribers :
         LET c == ws.sub[s]
             d == ws'.sub[s]
         IN
         (Len(d.received) = Len(c.received) + 1 /\ d.received[Len(d.received)] \in Undecodable)
            => /\ d.socket = Append(c.socket, Frame("error", {}, None, 0))
               /\ d.groups = c.groups
               /\ \A o \in Subscribers \ {s} : ws'.sub[o] = ws.sub[o]
               /\ flows' = flows /\ stats' = stats /\ alerts' = alerts]_vars

-----------------------------------------------------------------------------
(* Specifications of NetworkFlow instances *)

\* Everything but the instances: empty tables, idle tasks.
InitIdle ==
    /\ flows = {}
    /\ nextFlow = 1
    /\ clock = T0
    /\ ticks = 0
    /\ stats = {}
    /\ nextStat = 1
    /\ alerts = {}
    /\ nextAlert = 1
    /\ agg = [w \in Workers |-> IdleWorker]
    /\ enr = IdleEnrich
    /\ chk = "idle"
    /\ swp = IdleSweep
    /\ ack = [u \in Users |-> <<>>]
    /\ channel = {}
    /\ inv = NoInvocation
    /\ ws = NoChannels
    /\ selected = {}
    /\ api = "none"

\* Instances that differ in the identifying attributes, in the timestamp and
\* in whether the caller gave a flow_id.
IdentityInputs ==
    {NewInstance(src_ip, src_port, dst_ip, dst_port, protocol, first_seen,
                 timestamp, 0, 0, 0, flow_id) :
        src_ip \in {1, 2}, src_port \in {1024, 1025}, dst_ip \in {1, 2},
        dst_port \in {80, 443}, protocol \in Protocols,
        first_seen \in {T0 - Minute, T0}, timestamp \in {T0 - Minute, T0},
        flow_id \in {<<>>, <<3>>}}

InitIdentity ==
    /\ rec \in [Instances -> IdentityInputs]
    /\ InitIdle

NextIdentity == \E i \in Instances : save(i)

SpecIdentity == InitIdentity /\ [][NextIdentity]_vars

\* Instances that differ in the measurements: no duration, a second, two
\* seconds; up to 3 MB and 3 packets.
DerivedInputs ==
    {NewInstance(1, 1024, 1, 80, 6, T0, T0, packets, bytes, duration, <<>>) :
        packets \in {0, 1, 3}, bytes \in {0, 125000, 250000, 3000000},
        duration \in {0, 1, 2}}

InitDerived ==
    /\ rec \in [Instances -> DerivedInputs]
    /\ InitIdle

NextDerived == \E i \in Instances : ReadDerived(i)

SpecDerived == InitDerived /\ [][NextDerived]_vars

-----------------------------------------------------------------------------
(* Claims about NetworkFlow instances *)

\* The six attributes the flow id is made from.
Identity(r) ==
    <<r.src_ip, r.src_port, r.dst_ip, r.dst_port, r.protocol, r.first_seen>>

\* C26: flow_id is a deterministic function of (src_ip, src_port, dst_ip,
\* dst_port, protocol, first_seen): two records with identical values of
\* these six attributes get the identical generated flow_id, on every call.
C26_FlowIdDeterministic ==
    \A i, j \in DOMAIN rec :
        (rec[i].generated /\ rec[j].generated /\ Identity(rec[i]) = Identity(rec[j]))
            => rec[i].flow_id = rec[j].flow_id

\* Two instances with the same six attributes and different timestamps both
\* had their flow_id generated by save().
C26_Witness ==
    /\ rec[1].generated /\ rec[2].generated
    /\ Identity(rec[1]) = Identity(rec[2])
    /\ rec[1].timestamp # rec[2].timestamp
    /\ rec[1].flow_id = rec[2].flow_id

\* C27: for a flow with duration = 0, bandwidth_mbps is 0 and
\* packets_per_second is 0 and no division error is raised; for duration > 0
\* they equal bytes*8/(duration*1e6) and packets/duration (here: their whole
\* part).
C27_DerivedFields ==
    \A i \in DOMAIN rec :
        LET r == rec[i] IN
        r.bandwidth_mbps # None =>
            /\ r.bandwidth_mbps # ZeroDivisionError
            /\ r.packets_per_second # ZeroDivisionError
            /\ r.duration = 0 => r.bandwidth_mbps = 0 /\ r.packets_per_second = 0
            /\ r.duration > 0 =>
                  /\ r.bandwidth_mbps * (r.duration * 1000000) <= r.bytes * 8
                  /\ r.bytes * 8 < (r.bandwidth_mbps + 1) * (r.duration * 1000000)
                  /\ r.packets_per_second * r.duration <= r.packets
                  /\ r.packets < (r.packets_per_second + 1) * r.duration

\* The properties were read of a flow without duration that has bytes and
\* packets, and of a flow of two seconds with 12 Mbps and one packet a second.
C27_Witness ==
    /\ rec[1].duration = 0 /\ rec[1].bytes > 0 /\ rec[1].packets > 0
    /\ rec[1].bandwidth_mbps = 0 /\ rec[1].packets_per_second = 0
    /\ rec[2].duration = 2 /\ rec[2].bandwidth_mbps = 12 /\ rec[2].packets_per_second = 1

-----------------------------------------------------------------------------
(* Specification of the retention sweep beside the enrichment task *)

\* Unprocessed flows in store that are 20 days, 40 days, ... old.
AgedFlows(n) == {NewFlow(k, T0 - k * 20 * Day, 6) : k \in 1..n}

InitOverlap ==
    /\ \E n \in 0..MaxFlows :
          /\ flows = AgedFlows(n)
          /\ nextFlow = n + 1
    /\ InitRest

NextOverlap ==
    \/ EnrichStart
    \/ EnrichSlice
    \/ EnrichSave
    \/ EnrichSend
    \/ SweepStart
    \/ SweepFlows
    \/ SweepStats
    \/ SweepAlerts

SpecOverlap == InitOverlap /\ [][NextOverlap]_vars

\* C28: when a retention sweep and an invocation of the enrichment task
\* overlap, no flow with a timestamp before the sweep's cutoff exists once
\* the enrichment has returned and the sweep has deleted the old flows (its
\* remaining steps touch statistics and alerts only): a flow the sweep
\* deleted is not stored again by the enrichment's save of its loaded copy.
C28_OverlapSafe ==
    (enr.pc = "done" /\ swp.pc \in {"stats", "alerts"})
        => \A f \in flows : f.timestamp >= swp.cutoff_date

-----------------------------------------------------------------------------
(* Specification of the enrichment task invoked again and again *)

\* So many unprocessed flows wait at most when the run starts.
MaxBacklog == 6

InitRetry ==
    /\ \E n \in 0..MaxBacklog :
          /\ flows = PendingFlows(n)
          /\ nextFlow = n + 1
    /\ InitRest

\* The scheduler starts the task again whenever it has returned or failed,
\* and a started task takes its next step; a save may fail at any time.
SpecRetry ==
    /\ InitRetry
    /\ [][NextEnrich]_vars
    /\ WF_vars(EnrichStart)
    /\ WF_vars(EnrichSlice)
    /\ WF_vars(EnrichSave)
    /\ WF_vars(EnrichSend)

\* C30: if the enrichment task is invoked again and again, one invocation at
\* a time, no new flows arrive and the storage eventually stops failing,
\* then eventually every flow has processed = true; and a batch never holds
\* a flow that an earlier, partially failed invocation has processed.
C30_EventuallyProcessed ==
    /\ (<>[][~EnrichFail]_vars) => <>[](\A f \in flows : f.processed)
    /\ [](\A b \in enr.batch : \A f \in flows :
            (f.id = b.id /\ f.processed) => f.id \in enr.saved)

\* An invocation that has saved nothing yet is at work on a batch while an
\* earlier invocation, which failed, has left a processed flow.
C30_Witness ==
    /\ enr.pc = "save"
    /\ enr.saved = {}
    /\ \E f \in flows : f.processed
    /\ \A b \in enr.batch : \E f \in flows : f.id = b.id /\ ~f.processed

-----------------------------------------------------------------------------
(* Claims about interleaved requests, the published flows and the channels *)

\* C31: when two acknowledge requests for the same alert interleave, the
\* stored alert is acknowledged and its (acknowledged_by, acknowledged_at) is
\* the pair one caller wrote: every step that changes the pair of a stored
\* alert is the save of one request and stores that caller with the time of
\* that save.
C31_PairOfOneCaller ==
    [][\A b \in alerts' : \A a \in alerts :
         (a.id = b.id /\ <<a.acknowledged_by, a.acknowledged_at>>
                           # <<b.acknowledged_by, b.acknowledged_at>>)
            => \E u \in Users :
                  /\ ack[u] # <<>> /\ ack'[u] = <<>> /\ ack[u][1].id = b.id
                  /\ b.acknowledged
                  /\ b.acknowledged_by = u /\ b.acknowledged_at = clock]_vars

\* Both requests loaded the same alert before either saved; user 1 has saved
\* at T0, the clock went on, and user 2 still holds its unacknowledged copy.
C31_Witness ==
    /\ clock = T0 + Minute
    /\ ack[1] = <<>> /\ ack[2] # <<>> /\ ~ack[2][1].acknowledged
    /\ \E a \in alerts :
          /\ a.id = ack[2][1].id
          /\ a.acknowledged /\ a.acknowledged_by = 1 /\ a.acknowledged_at = T0

-----------------------------------------------------------------------------
(* Specification of the enrichment task over a store wider than the window *)

\* So many unprocessed flows wait at most, 25 seconds apart: twelve of them
\* lie in the last five minutes.
MaxRecent == 14

SpacedFlows(n) == {NewFlow(k, T0 - 25 * k, 6) : k \in 1..n}

InitPublish ==
    /\ \E n \in 0..MaxRecent :
          /\ flows = SpacedFlows(n)
          /\ nextFlow = n + 1
    /\ InitRest

NextPublish ==
    \/ EnrichStart
    \/ EnrichSlice
    \/ EnrichSave
    \/ EnrichSend

SpecPublish == InitPublish /\ [][NextPublish]_vars

\* The stored flow with primary key k.
FlowOf(k) == CHOOSE f \in flows : f.id = k

\* What C32 says of a published message m: at most 10 flows, each of the
\* last five minutes, newest first, and no flow of the window left out that
\* is newer than one of the message.
TenNewest(m) ==
    /\ m.group = "flows"
    /\ Len(m.flow_data) <= 10
    /\ \A i \in 1..Len(m.flow_data) :
          /\ \E f \in flows : f.id = m.flow_data[i]
          /\ FlowOf(m.flow_data[i]).timestamp >= clock - 5 * Minute
    /\ \A i, j \in 1..Len(m.flow_data) :
          i < j => FlowOf(m.flow_data[i]).timestamp >= FlowOf(m.flow_data[j]).timestamp
    /\ \A f \in flows : \A i \in 1..Len(m.flow_data) :
          (f.timestamp >= clock - 5 * Minute /\ f.timestamp > FlowOf(m.flow_data[i]).timestamp)
             => \E j \in 1..Len(m.flow_data) : m.flow_data[j] = f.id

-----------------------------------------------------------------------------
(* Specification of repeated detection over the same flows *)

\* Up to MaxFlows stored flows, each TCP or GRE, stamped a minute ahead, five
\* minutes back or a second more.
GivenFlows ==
    UNION {{ {NewFlow(k, T0 - age[k], proto[k]) : k \in 1..n}
              : age \in [1..n -> RecentFlowAge], proto \in [1..n -> Protocols]}
           : n \in 0..MaxFlows}

InitRepeat ==
    /\ flows \in GivenFlows
    /\ nextFlow = Cardinality(flows) + 1
    /\ InitRest

NextRepeat ==
    \/ CheckStart
    \/ CheckBandwidth
    \/ CheckProtocols
    \/ CheckPorts
    \/ CheckDdos

SpecRepeat == InitRepeat /\ [][NextRepeat]_vars

\* The alerts one invocation creates over the stored flows, without their
\* primary keys.
OneInvocation ==
    UNION {HeuristicRows(Heuristics[h], flows, clock) : h \in 1..Len(Heuristics)}

\* C33: check_flow_alerts does not de-duplicate: over unchanged flows every
\* invocation that has returned has created the alerts of one invocation
\* anew, beside those of the invocations before it, and no step deletes or
\* changes a stored alert.
C33_NoDeduplication ==
    /\ []((chk = "idle" /\ inv.done) =>
            /\ {[a EXCEPT !.id = 0] : a \in {b \in alerts : b.id >= inv.base}} = OneInvocation
            /\ nextAlert = inv.base + Cardinality(OneInvocation)
            /\ {a.id : a \in alerts} = 1..(nextAlert - 1)
            /\ \A a \in alerts : [a EXCEPT !.id = 0] \in OneInvocation)
    /\ [][alerts \subseteq alerts']_vars

\* The second invocation over one GRE flow has returned: two alerts for it.
C33_Witness ==
    /\ chk = "idle" /\ inv.done /\ inv.base = 2
    /\ Cardinality(OneInvocation) = 1
    /\ Cardinality(alerts) = 2
    /\ \A a \in alerts : a.alert_type = "unusual_protocol"

-----------------------------------------------------------------------------
(* Specification of the per-flow groups *)

\* Two clients connect, send frames about the per-flow group and disconnect.
NextSubscribe ==
    \/ \E s \in Subscribers : WsConnect(s)
    \/ \E s \in Subscribers : WsInitial(s)
    \/ \E s \in Subscribers, frame \in SubscriptionFrames : WsRequest(s, frame)
    \/ \E s \in Subscribers : WsDisconnect(s)

SpecSubscribe == InitSocket /\ [][NextSubscribe]_vars

\* The group a subscribe frame names: the group of the flow, or "flow_a b"
\* for the flow_id "a b".
GroupOf(frame) == IF frame = "subscribe_invalid_name" THEN "flow_a b" ELSE FlowGroup

\* C34: a subscribe message with a flow_id makes the sender a member of the
\* group of that flow id and an unsubscribe message removes it; both leave
\* the sender's membership of "flows" and the memberships of every other
\* connection as they are, and a message without flow_id or with an unknown
\* type changes no membership.
C34_SubscribeMembership ==
    [][\A s \in Subscribers :
         LET c == ws.sub[s]
             d == ws'.sub[s]
             frame == d.received[Len(d.received)]
         IN
         Len(d.received) = Len(c.received) + 1
            => /\ frame \in {"subscribe", "subscribe_invalid_name"}
                     => d.groups = c.groups \cup {GroupOf(frame)}
               /\ frame = "unsubscribe" => d.groups = c.groups \ {FlowGroup}
               /\ frame \in {"subscribe_no_flow_id", "unknown_type"}
                     => d.groups = c.groups
               /\ \A o \in Subscribers \ {s} : ws'.sub[o].groups = ws.sub[o].groups]_vars

\* C35: after a subscriber has disconnected its channel is a member of no
\* group, neither of "flows" nor of a per-flow group it joined by subscribe.
C35_DisconnectLeavesAll ==
    \A s \in Subscribers : ws.sub[s].conn = "gone" => ws.sub[s].groups = {}

-----------------------------------------------------------------------------
(* Claims about small windows, references and a failing channel layer *)

NextRace ==
    \/ MonthPasses
    \/ CollectRecentFlow
    \/ CheckStart
    \/ CheckBandwidth
    \/ CheckProtocolsLoad
    \/ CheckProtocolsCreate
    \/ CheckPorts
    \/ CheckDdos
    \/ SweepStart
    \/ SweepFlows
    \/ SweepStats
    \/ SweepAlerts

SpecRace == Init /\ [][NextRace]_vars

\* C37: in every reachable state each alert's flow is null or the primary
\* key of a stored flow.
C37_NoDanglingReference ==
    \A a \in alerts : a.flow = None \/ \E f \in flows : f.id = a.flow

\* The sweep has deleted a flow between the fetch of check_unusual_protocols
\* and its insert: the insert was refused and no alert is stored.
C37_Witness ==
    /\ "protocols" \in inv.faults
    /\ flows = {}
    /\ alerts = {}
    /\ nextFlow > 1

-----------------------------------------------------------------------------
(* Specification of the two publishing tasks over a failing channel layer *)

\* The enrichment task and one aggregator worker; either publish may succeed
\* or fail.  A client of the API stores snapshots, so that there is a
\* snapshot to publish.
NextOutage ==
    \/ Tick
    \/ ApiCreateStatistics
    \/ EnrichStart
    \/ EnrichSlice
    \/ EnrichSave
    \/ EnrichSend
    \/ EnrichSendFail
    \/ \E w \in StoreWorkers : AggStart(w)
    \/ \E w \in StoreWorkers : AggCheck(w)
    \/ \E w \in StoreWorkers : AggCreate(w)
    \/ \E w \in StoreWorkers : AggSend(w)
    \/ \E w \in StoreWorkers : AggSendFail(w)

SpecOutage == InitRetry /\ [][NextOutage]_vars

\* C38: a publish that fails does not fail its task and changes no stored
\* data.  Every step that takes the enrichment task or an aggregator worker
\* past its publish, whether the channel layer took the message or raised,
\* ends the task as done and leaves the flow, statistics and alert tables as
\* they were; but for the count of published messages the task's record is
\* the one a successful publish leaves.
C38_PublishFailureHarmless ==
    [][/\ (enr.pc = "send" /\ enr'.pc # "send") =>
            /\ [enr' EXCEPT !.sent = 0] = [enr EXCEPT !.pc = "done", !.sent = 0]
            /\ flows' = flows /\ stats' = stats /\ alerts' = alerts
        /\ \A w \in StoreWorkers :
             (agg[w].pc = "send" /\ agg'[w].pc # "send") =>
                /\ [agg'[w] EXCEPT !.sent = None] = [agg[w] EXCEPT !.pc = "done", !.sent = None]
                /\ flows' = flows /\ stats' = stats /\ alerts' = alerts]_vars

\* The enrichment task has saved every flow it found and returned although
\* its publish failed, and the aggregator has returned without publishing
\* the snapshot of the window.
C38_Witness ==
    /\ enr.pc = "done"
    /\ enr.pending # {}
    /\ enr.saved = enr.pending
    /\ enr.sent = 0
    /\ Unprocessed(flows) = {}
    /\ agg[1].pc = "done"
    /\ agg[1].sent = None
    /\ LatestStatistics(stats, clock) # None
    /\ channel = {}

====
